---- MODULE Spec2Model ----
(***************************************************************************)
(* A model of the limit order book of src/one.py (classes Order and        *)
(* OrderBook).                                                             *)
(*                                                                         *)
(* State.  The five attributes of OrderBook keep their names.  Order       *)
(* objects are mutable and shared between the id-map and the price-level   *)
(* lists, so they live in a store: `store` maps an object reference to the *)
(* object's fields, `orders` and the price-level lists hold references.    *)
(* A reference is the object's creation timestamp (time.time() read in     *)
(* Order.__init__), which is distinct for every object.                    *)
(*                                                                         *)
(* The two heapq lists are kept as sorted sequences of (key, timestamp,    *)
(* id) tuples: heap[0] is the least tuple, heappop removes it and heappush *)
(* adds one tuple, which is all the code observes of a heap.               *)
(*                                                                         *)
(* The price-level defaultdicts are functions whose DOMAIN is the set of   *)
(* keys present; reading a missing key inserts it with an empty list, as   *)
(* defaultdict(list).__getitem__ does.                                     *)
(*                                                                         *)
(* History variables, written by the actions and read only by the          *)
(* properties: `op` is the call made last with its arguments, `ret` its    *)
(* return value, `steps` the iterations of the last match_orders pass that *)
(* traded, `amended` the orders whose price modify_order has set,          *)
(* `removed_ids` the ids that have left the id-map, `calls` the number of *)
(* calls made.                                                             *)
(***************************************************************************)
EXTENDS Integers, Sequences, FiniteSets, TLC

VARIABLES orders, store, buy_orders, sell_orders,
          price_levels_buy, price_levels_sell,
          clock, calls, op, ret, steps, amended, removed_ids

vars == <<orders, store, buy_orders, sell_orders,
          price_levels_buy, price_levels_sell, clock, calls, op, ret, steps, amended,
          removed_ids>>

(***************************************************************************)
(* Bounds of the model.                                                    *)
(***************************************************************************)
MaxId == 3
MaxPrice == 2
MaxQty == 2
MaxCalls == 4
MaxDepth == 2

Ids == 1..MaxId
Prices == 1..MaxPrice
Quantities == 1..MaxQty
Depths == 1..MaxDepth
Sides == {"buy", "sell"}

\* Python's None, for optional arguments and for "no price" results.
None == -1

(***************************************************************************)
(* Dictionaries and lists.                                                 *)
(***************************************************************************)
\* d[k] = v
Put(d, k, v) == [x \in (DOMAIN d) \cup {k} |-> IF x = k THEN v ELSE d[x]]

\* del d[k]
Del(d, k) == [x \in (DOMAIN d) \ {k} |-> d[x]]

\* defaultdict(list).__getitem__: the dictionary after reading key k
Touch(levels, k) == IF k \in DOMAIN levels THEN levels ELSE Put(levels, k, <<>>)

\* the list read at key k
Level(levels, k) == IF k \in DOMAIN levels THEN levels[k] ELSE <<>>

\* list.remove(x): drops the first occurrence of x
RECURSIVE Remove(_, _)
Remove(s, x) ==
    IF s = <<>> THEN <<>>
    ELSE IF Head(s) = x THEN Tail(s)
    ELSE <<Head(s)>> \o Remove(Tail(s), x)

\* tuple comparison of two heap entries
TupleLess(a, b) ==
    \/ a[1] < b[1]
    \/ a[1] = b[1] /\ a[2] < b[2]
    \/ a[1] = b[1] /\ a[2] = b[2] /\ a[3] < b[3]

\* A variant of heappush with a defect, used to test the properties:
\* list.append, which does not keep the least entry first.
heappush_append(h, e) == Append(h, e)

\* heapq.heappush
RECURSIVE heappush(_, _)
heappush(h, e) ==
    IF h = <<>> THEN <<e>>
    ELSE IF TupleLess(e, Head(h)) THEN <<e>> \o h
    ELSE <<Head(h)>> \o heappush(Tail(h), e)

\* heapq.heappop: the heap that is left
heappop(h) == Tail(h)

RECURSIVE SumSeq(_)
SumSeq(s) == IF s = <<>> THEN 0 ELSE Head(s) + SumSeq(Tail(s))

Min(a, b) == IF a <= b THEN a ELSE b

Range(s) == {s[i] : i \in 1..Len(s)}

(***************************************************************************)
(* The book as one value, so that one method can call another.             *)
(***************************************************************************)
Book ==
    [orders |-> orders, store |-> store,
     buy_orders |-> buy_orders, sell_orders |-> sell_orders,
     price_levels_buy |-> price_levels_buy,
     price_levels_sell |-> price_levels_sell]

\* OrderBook.__init__
EmptyBook ==
    [orders |-> <<>>, store |-> <<>>,
     buy_orders |-> <<>>, sell_orders |-> <<>>,
     price_levels_buy |-> <<>>, price_levels_sell |-> <<>>]

\* references held by the id-map or by a price-level list
Reachable(b) ==
    {b.orders[i] : i \in DOMAIN b.orders}
    \cup UNION {Range(b.price_levels_buy[p]) : p \in DOMAIN b.price_levels_buy}
    \cup UNION {Range(b.price_levels_sell[p]) : p \in DOMAIN b.price_levels_sell}

\* objects nothing refers to any more are freed
Collect(b) == [b EXCEPT !.store = [r \in (DOMAIN @) \cap Reachable(b) |-> @[r]]]

\* Order.__init__
Order(order_id, side, price, quantity, timestamp) ==
    [order_id |-> order_id, side |-> side, price |-> price,
     quantity |-> quantity, timestamp |-> timestamp]

(***************************************************************************)
(* Variants of add_order with a defect, used to test the properties.       *)
(***************************************************************************)
\* puts the new order at the front of its price level
add_order_lifo(b, order_id, side, price, quantity, now) ==
    IF order_id \in DOMAIN b.orders
    THEN [book |-> b, ret |-> FALSE]
    ELSE LET order == Order(order_id, side, price, quantity, now)
             b1 == [b EXCEPT !.orders = Put(@, order_id, now),
                             !.store = Put(@, now, order)]
         IN  IF side = "buy"
             THEN [book |-> [b1 EXCEPT
                       !.buy_orders = heappush(@, <<-price, order.timestamp, order_id>>),
                       !.price_levels_buy =
                           Put(@, price, <<now>> \o Level(@, price))],
                   ret |-> TRUE]
             ELSE [book |-> [b1 EXCEPT
                       !.sell_orders = heappush(@, <<price, order.timestamp, order_id>>),
                       !.price_levels_sell =
                           Put(@, price, <<now>> \o Level(@, price))],
                   ret |-> TRUE]

\* pushes the heap entry before it tests for a duplicate id
add_order_push_first(b, order_id, side, price, quantity, now) ==
    LET b0 == IF side = "buy"
              THEN [b EXCEPT !.buy_orders = heappush(@, <<-price, now, order_id>>)]
              ELSE [b EXCEPT !.sell_orders = heappush(@, <<price, now, order_id>>)]
    IN  IF order_id \in DOMAIN b.orders
        THEN [book |-> b0, ret |-> FALSE]
        ELSE LET order == Order(order_id, side, price, quantity, now)
                 b1 == [b0 EXCEPT !.orders = Put(@, order_id, now),
                                  !.store = Put(@, now, order)]
             IN  IF side = "buy"
                 THEN [book |-> [b1 EXCEPT !.price_levels_buy =
                                     Put(@, price, Append(Level(@, price), now))],
                       ret |-> TRUE]
                 ELSE [book |-> [b1 EXCEPT !.price_levels_sell =
                                     Put(@, price, Append(Level(@, price), now))],
                       ret |-> TRUE]

(***************************************************************************)
(* OrderBook.add_order                                                     *)
(***************************************************************************)
add_order(b, order_id, side, price, quantity, now) ==
    IF order_id \in DOMAIN b.orders
    THEN [book |-> b, ret |-> FALSE]
    ELSE LET order == Order(order_id, side, price, quantity, now)
             b1 == [b EXCEPT !.orders = Put(@, order_id, now),
                             !.store = Put(@, now, order)]
         IN  IF side = "buy"
             THEN [book |-> [b1 EXCEPT
                       !.buy_orders = heappush(@, <<-price, order.timestamp, order_id>>),
                       !.price_levels_buy =
                           Put(@, price, Append(Level(@, price), now))],
                   ret |-> TRUE]
             ELSE [book |-> [b1 EXCEPT
                       !.sell_orders = heappush(@, <<price, order.timestamp, order_id>>),
                       !.price_levels_sell =
                           Put(@, price, Append(Level(@, price), now))],
                   ret |-> TRUE]

\* self.price_levels_X[price].remove(order); delete the key if the list is empty
RemoveFromLevel(levels, price, ref) ==
    LET rest == Remove(Level(levels, price), ref)
    IN  IF rest = <<>> THEN Del(levels, price) ELSE Put(levels, price, rest)

(***************************************************************************)
(* OrderBook.cancel_order                                                  *)
(***************************************************************************)
cancel_order(b, order_id) ==
    IF order_id \notin DOMAIN b.orders
    THEN [book |-> b, ret |-> FALSE]
    ELSE LET ref == b.orders[order_id]
             order == b.store[ref]
             b1 == IF order.side = "buy"
                   THEN [b EXCEPT !.price_levels_buy =
                                      RemoveFromLevel(@, order.price, ref)]
                   ELSE [b EXCEPT !.price_levels_sell =
                                      RemoveFromLevel(@, order.price, ref)]
         IN  [book |-> Collect([b1 EXCEPT !.orders = Del(@, order_id)]),
              ret |-> TRUE]

(***************************************************************************)
(* Variants of modify_order with a defect, used to test the properties.    *)
(***************************************************************************)
\* the steps of a price amendment, with the assignment to order.price
\* made or left out
AmendPrice(b, order_id, new_price, assign) ==
    LET ref == b.orders[order_id]
        order == b.store[ref]
        moved(levels) ==
            LET removed == RemoveFromLevel(levels, order.price, ref)
            IN  Put(removed, new_price, Append(Level(removed, new_price), ref))
        b1 == IF order.side = "buy"
              THEN [b EXCEPT
                       !.price_levels_buy = moved(@),
                       !.buy_orders =
                           heappush(@, <<-new_price, order.timestamp, order_id>>)]
              ELSE [b EXCEPT
                       !.price_levels_sell = moved(@),
                       !.sell_orders =
                           heappush(@, <<new_price, order.timestamp, order_id>>)]
    IN  IF assign THEN [b1 EXCEPT !.store[ref].price = new_price] ELSE b1

\* skips the amendment when new_price is the order's price already
modify_order_same_price_stays(b, order_id, new_price, new_quantity) ==
    IF order_id \notin DOMAIN b.orders
    THEN [book |-> b, ret |-> FALSE]
    ELSE LET ref == b.orders[order_id]
             b1 == IF new_price # None /\ new_price # b.store[ref].price
                   THEN AmendPrice(b, order_id, new_price, TRUE)
                   ELSE b
             b2 == IF new_quantity # None
                   THEN [b1 EXCEPT !.store[ref].quantity = new_quantity]
                   ELSE b1
         IN  [book |-> b2, ret |-> TRUE]

\* moves the order to the new price level without setting order.price
modify_order_keep_price_field(b, order_id, new_price, new_quantity) ==
    IF order_id \notin DOMAIN b.orders
    THEN [book |-> b, ret |-> FALSE]
    ELSE LET ref == b.orders[order_id]
             b1 == IF new_price # None
                   THEN AmendPrice(b, order_id, new_price, FALSE)
                   ELSE b
             b2 == IF new_quantity # None
                   THEN [b1 EXCEPT !.store[ref].quantity = new_quantity]
                   ELSE b1
         IN  [book |-> b2, ret |-> TRUE]

(***************************************************************************)
(* OrderBook.modify_order                                                  *)
(***************************************************************************)
modify_order(b, order_id, new_price, new_quantity) ==
    IF order_id \notin DOMAIN b.orders
    THEN [book |-> b, ret |-> FALSE]
    ELSE LET ref == b.orders[order_id]
             order == b.store[ref]
             old_price == order.price
             b1 == IF new_price # None
                   THEN IF order.side = "buy"
                        THEN [b EXCEPT
                                 !.price_levels_buy =
                                     LET removed == RemoveFromLevel(@, old_price, ref)
                                     IN  Put(removed, new_price,
                                             Append(Level(removed, new_price), ref)),
                                 !.store[ref].price = new_price,
                                 !.buy_orders =
                                     heappush(@, <<-new_price, order.timestamp, order_id>>)]
                        ELSE [b EXCEPT
                                 !.price_levels_sell =
                                     LET removed == RemoveFromLevel(@, old_price, ref)
                                     IN  Put(removed, new_price,
                                             Append(Level(removed, new_price), ref)),
                                 !.store[ref].price = new_price,
                                 !.sell_orders =
                                     heappush(@, <<new_price, order.timestamp, order_id>>)]
                   ELSE b
             b2 == IF new_quantity # None
                   THEN [b1 EXCEPT !.store[ref].quantity = new_quantity]
                   ELSE b1
         IN  [book |-> b2, ret |-> TRUE]

(***************************************************************************)
(* OrderBook.get_best_bid / get_best_ask                                   *)
(***************************************************************************)
\* A variant of get_best_bid with a defect, used to test the properties:
\* it pops the entry it reports instead of leaving it on the heap.
RECURSIVE get_best_bid_pops_live(_)
get_best_bid_pops_live(b) ==
    IF b.buy_orders = <<>>
    THEN [book |-> b, ret |-> None]
    ELSE LET top == Head(b.buy_orders)
         IN  IF top[3] \in DOMAIN b.orders
             THEN [book |-> [b EXCEPT !.buy_orders = heappop(@)], ret |-> -top[1]]
             ELSE get_best_bid_pops_live([b EXCEPT !.buy_orders = heappop(@)])

RECURSIVE get_best_bid(_)
get_best_bid(b) ==
    IF b.buy_orders = <<>>
    THEN [book |-> b, ret |-> None]
    ELSE LET top == Head(b.buy_orders)
         IN  IF top[3] \in DOMAIN b.orders
             THEN [book |-> b, ret |-> -top[1]]
             ELSE get_best_bid([b EXCEPT !.buy_orders = heappop(@)])

RECURSIVE get_best_ask(_)
get_best_ask(b) ==
    IF b.sell_orders = <<>>
    THEN [book |-> b, ret |-> None]
    ELSE LET top == Head(b.sell_orders)
         IN  IF top[3] \in DOMAIN b.orders
             THEN [book |-> b, ret |-> top[1]]
             ELSE get_best_ask([b EXCEPT !.sell_orders = heappop(@)])

(***************************************************************************)
(* OrderBook.get_spread                                                    *)
(***************************************************************************)
get_spread(b) ==
    LET bid == get_best_bid(b)
        ask == get_best_ask(bid.book)
    IN  [book |-> ask.book,
         ret |-> IF bid.ret # None /\ ask.ret # None
                 THEN ask.ret - bid.ret ELSE None]

(***************************************************************************)
(* OrderBook.get_order_book_snapshot                                       *)
(***************************************************************************)
\* sum(order.quantity for order in level)
TotalQuantity(b, level) ==
    SumSeq([i \in 1..Len(level) |-> b.store[level[i]].quantity])

\* the loop over the copy of the buy heap: the levels found and the
\* price_levels_buy it leaves
RECURSIVE snapshot_bids(_, _, _, _, _)
snapshot_bids(b, temp_buy_orders, seen_bid_prices, bids, depth) ==
    IF temp_buy_orders = <<>> \/ Len(bids) >= depth
    THEN [book |-> b, ret |-> bids]
    ELSE LET top == Head(temp_buy_orders)
             price == -top[1]
             order_id == top[3]
         IN  IF price \notin seen_bid_prices /\ order_id \in DOMAIN b.orders
             THEN LET b1 == [b EXCEPT !.price_levels_buy = Touch(@, price)]
                      total_quantity ==
                          TotalQuantity(b1, b1.price_levels_buy[price])
                  IN  snapshot_bids(b1, heappop(temp_buy_orders),
                                    seen_bid_prices \cup {price},
                                    Append(bids, <<price, total_quantity>>), depth)
             ELSE snapshot_bids(b, heappop(temp_buy_orders),
                                seen_bid_prices, bids, depth)

RECURSIVE snapshot_asks(_, _, _, _, _)
snapshot_asks(b, temp_sell_orders, seen_ask_prices, asks, depth) ==
    IF temp_sell_orders = <<>> \/ Len(asks) >= depth
    THEN [book |-> b, ret |-> asks]
    ELSE LET top == Head(temp_sell_orders)
             price == top[1]
             order_id == top[3]
         IN  IF price \notin seen_ask_prices /\ order_id \in DOMAIN b.orders
             THEN LET b1 == [b EXCEPT !.price_levels_sell = Touch(@, price)]
                      total_quantity ==
                          TotalQuantity(b1, b1.price_levels_sell[price])
                  IN  snapshot_asks(b1, heappop(temp_sell_orders),
                                    seen_ask_prices \cup {price},
                                    Append(asks, <<price, total_quantity>>), depth)
             ELSE snapshot_asks(b, heappop(temp_sell_orders),
                                seen_ask_prices, asks, depth)

get_order_book_snapshot(b, depth) ==
    LET bids == snapshot_bids(b, b.buy_orders, {}, <<>>, depth)
        asks == snapshot_asks(bids.book, bids.book.sell_orders, {}, <<>>, depth)
    IN  [book |-> asks.book,
         ret |-> [bids |-> bids.ret, asks |-> asks.ret]]

(***************************************************************************)
(* OrderBook.match_orders                                                  *)
(***************************************************************************)
\* cancel_order called from the loop when a traded order's quantity is zero
CancelIfFilled(b, ref) ==
    IF b.store[ref].quantity = 0
    THEN cancel_order(b, b.store[ref].order_id).book
    ELSE b

\* Variants of execute_trade with a defect, used to test the properties.
\* prices the trade at the buy order's price
execute_trade_buy_price(b, buy_ref, sell_ref) ==
    LET buy_order == b.store[buy_ref]
        sell_order == b.store[sell_ref]
        match_quantity == Min(buy_order.quantity, sell_order.quantity)
        match_price == buy_order.price
        b2 == [b EXCEPT !.store[buy_ref].quantity = @ - match_quantity,
                        !.store[sell_ref].quantity = @ - match_quantity]
        b3 == CancelIfFilled(b2, buy_ref)
        b4 == CancelIfFilled(b3, sell_ref)
    IN  [book |-> b4,
         match |-> [buy_order_id |-> buy_order.order_id,
                    sell_order_id |-> sell_order.order_id,
                    price |-> match_price,
                    quantity |-> match_quantity]]

\* trades the buy order's quantity instead of the minimum of the two
execute_trade_take_buy_quantity(b, buy_ref, sell_ref) ==
    LET buy_order == b.store[buy_ref]
        sell_order == b.store[sell_ref]
        match_quantity == buy_order.quantity
        match_price == sell_order.price
        b2 == [b EXCEPT !.store[buy_ref].quantity = @ - match_quantity,
                        !.store[sell_ref].quantity = @ - match_quantity]
        b3 == CancelIfFilled(b2, buy_ref)
        b4 == CancelIfFilled(b3, sell_ref)
    IN  [book |-> b4,
         match |-> [buy_order_id |-> buy_order.order_id,
                    sell_order_id |-> sell_order.order_id,
                    price |-> match_price,
                    quantity |-> match_quantity]]

\* trades one unit per iteration
execute_trade_one_unit(b, buy_ref, sell_ref) ==
    LET buy_order == b.store[buy_ref]
        sell_order == b.store[sell_ref]
        match_quantity == 1
        match_price == sell_order.price
        b2 == [b EXCEPT !.store[buy_ref].quantity = @ - match_quantity,
                        !.store[sell_ref].quantity = @ - match_quantity]
        b3 == CancelIfFilled(b2, buy_ref)
        b4 == CancelIfFilled(b3, sell_ref)
    IN  [book |-> b4,
         match |-> [buy_order_id |-> buy_order.order_id,
                    sell_order_id |-> sell_order.order_id,
                    price |-> match_price,
                    quantity |-> match_quantity]]

\* takes the whole buy order out whatever the quantity traded
execute_trade_fill_buy(b, buy_ref, sell_ref) ==
    LET buy_order == b.store[buy_ref]
        sell_order == b.store[sell_ref]
        match_quantity == Min(buy_order.quantity, sell_order.quantity)
        match_price == sell_order.price
        b2 == [b EXCEPT !.store[buy_ref].quantity = 0,
                        !.store[sell_ref].quantity = @ - match_quantity]
        b3 == CancelIfFilled(b2, buy_ref)
        b4 == CancelIfFilled(b3, sell_ref)
    IN  [book |-> b4,
         match |-> [buy_order_id |-> buy_order.order_id,
                    sell_order_id |-> sell_order.order_id,
                    price |-> match_price,
                    quantity |-> match_quantity]]

\* One trade between the front orders of the two lists: the trade
\* recorded and the book after the quantities are reduced and the filled
\* orders cancelled.
execute_trade(b, buy_ref, sell_ref) ==
    LET buy_order == b.store[buy_ref]
        sell_order == b.store[sell_ref]
        match_quantity == Min(buy_order.quantity, sell_order.quantity)
        match_price == sell_order.price
        b2 == [b EXCEPT !.store[buy_ref].quantity = @ - match_quantity,
                        !.store[sell_ref].quantity = @ - match_quantity]
        b3 == CancelIfFilled(b2, buy_ref)
        b4 == CancelIfFilled(b3, sell_ref)
    IN  [book |-> b4,
         match |-> [buy_order_id |-> buy_order.order_id,
                    sell_order_id |-> sell_order.order_id,
                    price |-> match_price,
                    quantity |-> match_quantity]]

\* A variant of match_loop with a defect, used to test the properties:
\* an `if` in place of the `while`, one iteration per call.
match_loop_once(b, matches, trace) ==
    LET bid == get_best_bid(b)
        ask == get_best_ask(bid.book)
        best_bid == bid.ret
        best_ask == ask.ret
        b0 == ask.book
    IN  IF best_bid = None \/ best_ask = None \/ best_bid < best_ask
        THEN [book |-> b0, ret |-> matches, trace |-> trace]
        ELSE LET b1 == [b0 EXCEPT
                           !.price_levels_buy = Touch(@, best_bid),
                           !.price_levels_sell = Touch(@, best_ask)]
                 buy_orders_at_price == b1.price_levels_buy[best_bid]
                 sell_orders_at_price == b1.price_levels_sell[best_ask]
             IN  IF buy_orders_at_price = <<>> \/ sell_orders_at_price = <<>>
                 THEN [book |-> b1, ret |-> matches, trace |-> trace]
                 ELSE LET t == execute_trade(b1, buy_orders_at_price[1],
                                             sell_orders_at_price[1])
                      IN  [book |-> t.book,
                           ret |-> Append(matches, t.match),
                           trace |-> Append(trace,
                                            [before |-> b1, after |-> t.book,
                                             best_bid |-> best_bid,
                                             best_ask |-> best_ask])]

\* The while loop.  `matches` is the list returned; `trace` records, for
\* every trade, the prices the iteration read and the book right before
\* and right after the trade.
RECURSIVE match_loop(_, _, _)
match_loop(b, matches, trace) ==
    LET bid == get_best_bid(b)
        ask == get_best_ask(bid.book)
        best_bid == bid.ret
        best_ask == ask.ret
        b0 == ask.book
    IN  IF best_bid = None \/ best_ask = None \/ best_bid < best_ask
        THEN [book |-> b0, ret |-> matches, trace |-> trace]
        ELSE LET b1 == [b0 EXCEPT
                           !.price_levels_buy = Touch(@, best_bid),
                           !.price_levels_sell = Touch(@, best_ask)]
                 buy_orders_at_price == b1.price_levels_buy[best_bid]
                 sell_orders_at_price == b1.price_levels_sell[best_ask]
             IN  IF buy_orders_at_price = <<>> \/ sell_orders_at_price = <<>>
                 THEN [book |-> b1, ret |-> matches, trace |-> trace]
                 ELSE LET t == execute_trade(b1, buy_orders_at_price[1],
                                             sell_orders_at_price[1])
                      IN  match_loop(t.book, Append(matches, t.match),
                                     Append(trace,
                                            [before |-> b1, after |-> t.book,
                                             best_bid |-> best_bid,
                                             best_ask |-> best_ask]))

match_orders(b) == match_loop(b, <<>>, <<>>)

(***************************************************************************)
(* The state machine: one action per public method of OrderBook.           *)
(***************************************************************************)
SetBook(b) ==
    /\ orders' = b.orders
    /\ store' = b.store
    /\ buy_orders' = b.buy_orders
    /\ sell_orders' = b.sell_orders
    /\ price_levels_buy' = b.price_levels_buy
    /\ price_levels_sell' = b.price_levels_sell
    /\ removed_ids' = removed_ids \cup (DOMAIN orders \ DOMAIN b.orders)

Init ==
    /\ orders = EmptyBook.orders
    /\ store = EmptyBook.store
    /\ buy_orders = EmptyBook.buy_orders
    /\ sell_orders = EmptyBook.sell_orders
    /\ price_levels_buy = EmptyBook.price_levels_buy
    /\ price_levels_sell = EmptyBook.price_levels_sell
    /\ clock = 1
    /\ calls = 0
    /\ op = [name |-> "init"]
    /\ ret = None
    /\ steps = <<>>
    /\ amended = {}
    /\ removed_ids = {}

\* The driver makes at most MaxCalls calls on the book.
Call ==
    /\ calls < MaxCalls
    /\ calls' = calls + 1

AddOrder(order_id, side, price, quantity) ==
    /\ Call
    /\ LET r == add_order(Book, order_id, side, price, quantity, clock)
       IN  /\ SetBook(r.book)
           /\ ret' = r.ret
           /\ clock' = IF r.ret THEN clock + 1 ELSE clock
    /\ op' = [name |-> "add_order", order_id |-> order_id, side |-> side,
              price |-> price, quantity |-> quantity]
    /\ steps' = <<>>
    /\ UNCHANGED amended

CancelOrder(order_id) ==
    /\ Call
    /\ LET r == cancel_order(Book, order_id)
       IN  SetBook(r.book) /\ ret' = r.ret
    /\ op' = [name |-> "cancel_order", order_id |-> order_id]
    /\ UNCHANGED <<clock, amended>>
    /\ steps' = <<>>

ModifyOrder(order_id, new_price, new_quantity) ==
    /\ Call
    /\ LET r == modify_order(Book, order_id, new_price, new_quantity)
       IN  SetBook(r.book) /\ ret' = r.ret
    /\ op' = [name |-> "modify_order", order_id |-> order_id,
              new_price |-> new_price, new_quantity |-> new_quantity]
    /\ amended' = IF order_id \in DOMAIN orders /\ new_price # None
                  THEN amended \cup {orders[order_id]}
                  ELSE amended
    /\ UNCHANGED clock
    /\ steps' = <<>>

GetBestBid ==
    /\ Call
    /\ LET r == get_best_bid(Book)
       IN  SetBook(r.book) /\ ret' = r.ret
    /\ op' = [name |-> "get_best_bid"]
    /\ UNCHANGED <<clock, amended>>
    /\ steps' = <<>>

GetBestAsk ==
    /\ Call
    /\ LET r == get_best_ask(Book)
       IN  SetBook(r.book) /\ ret' = r.ret
    /\ op' = [name |-> "get_best_ask"]
    /\ UNCHANGED <<clock, amended>>
    /\ steps' = <<>>

GetSpread ==
    /\ Call
    /\ LET r == get_spread(Book)
       IN  SetBook(r.book) /\ ret' = r.ret
    /\ op' = [name |-> "get_spread"]
    /\ UNCHANGED <<clock, amended>>
    /\ steps' = <<>>

GetOrderBookSnapshot(depth) ==
    /\ Call
    /\ LET r == get_order_book_snapshot(Book, depth)
       IN  SetBook(r.book) /\ ret' = r.ret
    /\ op' = [name |-> "get_order_book_snapshot", depth |-> depth]
    /\ UNCHANGED <<clock, amended>>
    /\ steps' = <<>>

MatchOrders ==
    /\ Call
    /\ LET r == match_orders(Book)
       IN  SetBook(r.book) /\ ret' = r.ret /\ steps' = r.trace
    /\ op' = [name |-> "match_orders"]
    /\ UNCHANGED <<clock, amended>>

Next ==
    \/ \E order_id \in Ids, side \in Sides, price \in Prices, quantity \in Quantities :
           AddOrder(order_id, side, price, quantity)
    \/ \E order_id \in Ids : CancelOrder(order_id)
    \/ \E order_id \in Ids, new_price \in Prices \cup {None},
          new_quantity \in Quantities \cup {None} :
           ModifyOrder(order_id, new_price, new_quantity)
    \/ GetBestBid
    \/ GetBestAsk
    \/ GetSpread
    \/ \E depth \in Depths : GetOrderBookSnapshot(depth)
    \/ MatchOrders

Spec == Init /\ [][Next]_vars

(***************************************************************************)
(* Vocabulary of the properties.                                           *)
(***************************************************************************)
\* the order resting under an id
Resting(b, order_id) == b.store[b.orders[order_id]]

RestingIds(b, side) ==
    {i \in DOMAIN b.orders : Resting(b, i).side = side}

RestingPrices(b, side) ==
    {Resting(b, i).price : i \in RestingIds(b, side)}

IsMax(p, S) == p \in S /\ \A q \in S : q <= p
IsMin(p, S) == p \in S /\ \A q \in S : p <= q

\* some resting buy order is priced at or above some resting sell order
Crossed(b) ==
    \E i \in RestingIds(b, "buy"), j \in RestingIds(b, "sell") :
        Resting(b, i).price >= Resting(b, j).price

\* the last call was op_name
Returned(op_name) == op.name = op_name

(***************************************************************************)
(* C1.  When match_orders returns, no resting buy order is priced at or    *)
(* above a resting sell order.                                             *)
(***************************************************************************)
C1_NoCrossAfterMatch ==
    Returned("match_orders") => ~Crossed(Book)

(***************************************************************************)
(* C2.  Right after match_orders returns, get_best_bid() is None, or       *)
(* get_best_ask() is None, or get_best_bid() < get_best_ask().             *)
(***************************************************************************)
C2_BidBelowAskAfterMatch ==
    Returned("match_orders") =>
        LET best_bid == get_best_bid(Book).ret
            best_ask == get_best_ask(Book).ret
        IN  best_bid = None \/ best_ask = None \/ best_bid < best_ask

(***************************************************************************)
(* C3.  A price returned by get_best_bid is the highest current price of   *)
(* the resting buy orders, and a price returned by get_best_ask is the     *)
(* lowest current price of the resting sell orders.                        *)
(***************************************************************************)
C3_BestIsBestRestingPrice ==
    LET best_bid == get_best_bid(Book).ret
        best_ask == get_best_ask(Book).ret
    IN  /\ best_bid # None => IsMax(best_bid, RestingPrices(Book, "buy"))
        /\ best_ask # None => IsMin(best_ask, RestingPrices(Book, "sell"))

(***************************************************************************)
(* C4.  get_best_bid returns None exactly when no buy order is resting,    *)
(* and get_best_ask returns None exactly when no sell order is resting.    *)
(***************************************************************************)
C4_NoneIffSideEmpty ==
    /\ get_best_bid(Book).ret = None <=> RestingIds(Book, "buy") = {}
    /\ get_best_ask(Book).ret = None <=> RestingIds(Book, "sell") = {}

(***************************************************************************)
(* C5.  FIFO within a price level: when a trade names order B, no order A  *)
(* of B's side and price that was added before B is resting, if neither    *)
(* was amended in price.                                                   *)
(***************************************************************************)
\* A and B rest on one side at one price, A created first, prices never amended
AheadOf(b, a_id, b_id) ==
    LET A == Resting(b, a_id)
        B == Resting(b, b_id)
    IN  /\ A.side = B.side
        /\ A.price = B.price
        /\ A.timestamp < B.timestamp
        /\ A.timestamp \notin amended
        /\ B.timestamp \notin amended

C5_FifoWithinLevel ==
    Returned("match_orders") =>
        \A k \in 1..Len(steps) :
            \A b_id \in {ret[k].buy_order_id, ret[k].sell_order_id} :
                \A a_id \in DOMAIN steps[k].before.orders :
                    ~AheadOf(steps[k].before, a_id, b_id)

\* a pass that traded A and later B, A ahead of B when A traded
C5_Witness ==
    /\ Returned("match_orders")
    /\ \E j, k \in 1..Len(steps) :
           /\ j < k
           /\ ret[k].buy_order_id \in DOMAIN steps[j].before.orders
           /\ AheadOf(steps[j].before, ret[j].buy_order_id, ret[k].buy_order_id)

(***************************************************************************)
(* C6.  modify_order with a new_price leaves the order last in its side's  *)
(* list at new_price, behind the orders that were there, and pushes one    *)
(* heap entry; modify_order with only a new_quantity leaves every list of  *)
(* both price ledgers and both heaps as they were.                         *)
(***************************************************************************)
\* h2 is h1 with the one entry e added
PushedOne(h1, h2, e) ==
    /\ Len(h2) = Len(h1) + 1
    /\ \E i \in 1..Len(h2) :
           /\ h2[i] = e
           /\ [j \in 1..Len(h1) |-> IF j < i THEN h2[j] ELSE h2[j + 1]] = h1

PriceAmendmentEffect(pre, post, order_id, new_price) ==
    LET ref == pre.orders[order_id]
        order == pre.store[ref]
        was_there(levels) == Remove(Level(levels, new_price), ref)
    IN  /\ post.orders = pre.orders
        /\ post.store[ref].price = new_price
        /\ IF order.side = "buy"
           THEN /\ new_price \in DOMAIN post.price_levels_buy
                /\ post.price_levels_buy[new_price] =
                       Append(was_there(pre.price_levels_buy), ref)
                /\ PushedOne(pre.buy_orders, post.buy_orders,
                             <<-new_price, order.timestamp, order_id>>)
                /\ post.sell_orders = pre.sell_orders
                /\ post.price_levels_sell = pre.price_levels_sell
           ELSE /\ new_price \in DOMAIN post.price_levels_sell
                /\ post.price_levels_sell[new_price] =
                       Append(was_there(pre.price_levels_sell), ref)
                /\ PushedOne(pre.sell_orders, post.sell_orders,
                             <<new_price, order.timestamp, order_id>>)
                /\ post.buy_orders = pre.buy_orders
                /\ post.price_levels_buy = pre.price_levels_buy

QuantityAmendmentEffect(pre, post) ==
    /\ post.orders = pre.orders
    /\ post.price_levels_buy = pre.price_levels_buy
    /\ post.price_levels_sell = pre.price_levels_sell
    /\ post.buy_orders = pre.buy_orders
    /\ post.sell_orders = pre.sell_orders

C6_AmendmentAndQueuePosition ==
    [][(op'.name = "modify_order" /\ op'.order_id \in DOMAIN orders) =>
           IF op'.new_price # None
           THEN PriceAmendmentEffect(Book, Book', op'.order_id, op'.new_price)
           ELSE QuantityAmendmentEffect(Book, Book')]_vars

\* a price amendment to the price the order had already, made with another
\* order at that price: the amended order is now last, behind it
C6_Witness ==
    /\ Returned("modify_order")
    /\ ret = TRUE
    /\ op.new_price # None
    /\ LET order == Resting(Book, op.order_id)
           levels == IF order.side = "buy"
                     THEN price_levels_buy ELSE price_levels_sell
           heap == IF order.side = "buy" THEN buy_orders ELSE sell_orders
           level == levels[op.new_price]
       IN  /\ Len(level) >= 2
           /\ level[Len(level)] = orders[op.order_id]
           /\ store[level[1]].timestamp > order.timestamp
           /\ \E i \in 1..(Len(heap) - 1) :
                  heap[i] = heap[i + 1] /\ heap[i][3] = op.order_id

(***************************************************************************)
(* C7.  Every trade's price is the current price of the sell order it      *)
(* names at the moment of the trade, which is the price get_best_ask       *)
(* returned in that iteration.                                             *)
(***************************************************************************)
C7_TradeAtSellPrice ==
    Returned("match_orders") =>
        \A k \in 1..Len(steps) :
            /\ ret[k].sell_order_id \in DOMAIN steps[k].before.orders
            /\ ret[k].price =
                   Resting(steps[k].before, ret[k].sell_order_id).price
            /\ ret[k].price = steps[k].best_ask

\* a trade between a buy order and a later, lower-priced sell order
C7_Witness ==
    /\ Returned("match_orders")
    /\ \E k \in 1..Len(steps) :
           LET buy == Resting(steps[k].before, ret[k].buy_order_id)
               sell == Resting(steps[k].before, ret[k].sell_order_id)
           IN  buy.price > sell.price /\ buy.timestamp < sell.timestamp

(***************************************************************************)
(* C8.  Quantity conservation: a trade's quantity is the minimum of the    *)
(* two orders' quantities before it, both orders lose exactly that much,   *)
(* no other order's quantity changes, and over a pass the resting buy      *)
(* quantity and the resting sell quantity each fall by the sum of the      *)
(* trade quantities.                                                       *)
(***************************************************************************)
\* quantity resting under an id, zero once the order has left the book
QuantityOf(b, order_id) ==
    IF order_id \in DOMAIN b.orders THEN Resting(b, order_id).quantity ELSE 0

RECURSIVE SumOver(_, _, _)
SumOver(b, ids, side) ==
    IF ids = {} THEN 0
    ELSE LET i == CHOOSE x \in ids : TRUE
         IN  (IF Resting(b, i).side = side THEN Resting(b, i).quantity ELSE 0)
             + SumOver(b, ids \ {i}, side)

RestingQuantity(b, side) == SumOver(b, DOMAIN b.orders, side)

TradedQuantity(matches) ==
    SumSeq([k \in 1..Len(matches) |-> matches[k].quantity])

TradeConserves(before_, after_, match) ==
    LET buy_id == match.buy_order_id
        sell_id == match.sell_order_id
    IN  /\ buy_id \in DOMAIN before_.orders
        /\ sell_id \in DOMAIN before_.orders
        /\ match.quantity = Min(QuantityOf(before_, buy_id),
                                QuantityOf(before_, sell_id))
        /\ QuantityOf(after_, buy_id) = QuantityOf(before_, buy_id) - match.quantity
        /\ QuantityOf(after_, sell_id) = QuantityOf(before_, sell_id) - match.quantity
        /\ \A i \in (DOMAIN before_.orders \cup DOMAIN after_.orders)
                        \ {buy_id, sell_id} :
               /\ i \in DOMAIN before_.orders /\ i \in DOMAIN after_.orders
               /\ QuantityOf(after_, i) = QuantityOf(before_, i)

\* the same orders with the same quantities
SameQuantities(b1, b2) ==
    /\ DOMAIN b1.orders = DOMAIN b2.orders
    /\ \A i \in DOMAIN b1.orders : QuantityOf(b1, i) = QuantityOf(b2, i)

C8_QuantityConservation ==
    [][op'.name = "match_orders" =>
           /\ Len(steps') = Len(ret')
           /\ \A k \in 1..Len(steps') :
                  /\ TradeConserves(steps'[k].before, steps'[k].after, ret'[k])
                  /\ SameQuantities(IF k = 1 THEN Book ELSE steps'[k - 1].after,
                                    steps'[k].before)
           /\ SameQuantities(IF steps' = <<>> THEN Book
                             ELSE steps'[Len(steps')].after, Book')
           /\ RestingQuantity(Book, "buy") - RestingQuantity(Book', "buy")
                  = TradedQuantity(ret')
           /\ RestingQuantity(Book, "sell") - RestingQuantity(Book', "sell")
                  = TradedQuantity(ret')]_vars

\* a pass of two trades, one a partial fill, with an order left untouched
C8_Witness ==
    /\ Returned("match_orders")
    /\ Len(ret) = 2
    /\ \E k \in 1..2 :
           QuantityOf(steps[k].before, ret[k].buy_order_id)
               # QuantityOf(steps[k].before, ret[k].sell_order_id)
    /\ DOMAIN orders # {}

(***************************************************************************)
(* C9.  A failed operation changes nothing: add_order with a resting id,   *)
(* and cancel_order or modify_order with an id that is not resting,        *)
(* return False and leave the id-map, the orders, both price ledgers and   *)
(* both heaps as they were, so the snapshot is the same.                   *)
(***************************************************************************)
Fails(name, order_id) ==
    \/ name = "add_order" /\ order_id \in DOMAIN orders
    \/ name \in {"cancel_order", "modify_order"} /\ order_id \notin DOMAIN orders

C9_FailedOperationChangesNothing ==
    [][(op'.name \in {"add_order", "cancel_order", "modify_order"}
            /\ Fails(op'.name, op'.order_id)) =>
           /\ ret' = FALSE
           /\ Book' = Book
           /\ \A depth \in Depths :
                  get_order_book_snapshot(Book', depth).ret
                      = get_order_book_snapshot(Book, depth).ret]_vars

\* add_order refused for an id that rests, on a book with both sides and
\* a stale heap entry
C9_Witness ==
    /\ Returned("add_order")
    /\ ret = FALSE
    /\ op.order_id \in DOMAIN orders
    /\ (op.side # Resting(Book, op.order_id).side
           \/ op.price # Resting(Book, op.order_id).price)
    /\ Len(buy_orders) + Len(sell_orders) > Cardinality(DOMAIN orders)

(***************************************************************************)
(* C10.  Every order of the id-map occurs exactly once in the lists of     *)
(* the two price ledgers, in a list of its own side under its own current  *)
(* price, and every order in a list is the order the id-map holds for its  *)
(* id.                                                                     *)
(***************************************************************************)
\* number of occurrences of ref in the lists of a price ledger
Occurrences(levels, ref) ==
    LET Count(p) == Cardinality({i \in 1..Len(levels[p]) : levels[p][i] = ref})
        RECURSIVE Total(_)
        Total(ps) == IF ps = {} THEN 0
                     ELSE LET p == CHOOSE x \in ps : TRUE
                          IN  Count(p) + Total(ps \ {p})
    IN  Total(DOMAIN levels)

OwnLevels(b, side) ==
    IF side = "buy" THEN b.price_levels_buy ELSE b.price_levels_sell

C10_LedgerMatchesIdMap ==
    /\ \A i \in DOMAIN orders :
           LET ref == orders[i]
               order == store[ref]
               levels == OwnLevels(Book, order.side)
           IN  /\ order.order_id = i
               /\ Occurrences(price_levels_buy, ref)
                      + Occurrences(price_levels_sell, ref) = 1
               /\ order.price \in DOMAIN levels
               /\ ref \in Range(levels[order.price])
    /\ \A side \in Sides :
           \A p \in DOMAIN OwnLevels(Book, side) :
               \A ref \in Range(OwnLevels(Book, side)[p]) :
                   /\ ref \in DOMAIN store
                   /\ store[ref].order_id \in DOMAIN orders
                   /\ orders[store[ref].order_id] = ref

\* three orders resting, two sharing a list, after a price amendment
C10_Witness ==
    /\ Returned("modify_order")
    /\ ret = TRUE
    /\ op.new_price # None
    /\ Cardinality(DOMAIN orders) = 3
    /\ \E side \in Sides :
           \E p \in DOMAIN OwnLevels(Book, side) :
               Len(OwnLevels(Book, side)[p]) = 2

(***************************************************************************)
(* C11.  get_order_book_snapshot(depth) returns, per side, the best        *)
(* min(depth, number of live levels) prices at which an order rests, best  *)
(* first and each once, each with the sum of the quantities resting there. *)
(***************************************************************************)
\* quantity resting on a side at a price
LevelQuantity(b, side, price) ==
    SumOver(b, {i \in RestingIds(b, side) : Resting(b, i).price = price}, side)

\* the first n of the prices S, best first
RECURSIVE BestFirst(_, _, _)
BestFirst(S, side, n) ==
    IF S = {} \/ n = 0 THEN <<>>
    ELSE LET p == CHOOSE x \in S :
                      IF side = "buy" THEN IsMax(x, S) ELSE IsMin(x, S)
         IN  <<p>> \o BestFirst(S \ {p}, side, n - 1)

LiveLevels(b, side, depth) ==
    LET prices == BestFirst(RestingPrices(b, side), side, depth)
    IN  [k \in 1..Len(prices) |-> <<prices[k], LevelQuantity(b, side, prices[k])>>]

C11_SnapshotIsLiveLevels ==
    \A depth \in Depths :
        LET snapshot == get_order_book_snapshot(Book, depth).ret
        IN  /\ snapshot.bids = LiveLevels(Book, "buy", depth)
            /\ snapshot.asks = LiveLevels(Book, "sell", depth)

(***************************************************************************)
(* C12.  Ids are never reused: an id that cancel_order or a fill has       *)
(* removed from the book never rests again.                                *)
(***************************************************************************)
C12_RemovedIdNeverRests ==
    \A i \in removed_ids : i \notin DOMAIN orders

(***************************************************************************)
(* C13.  With positive quantities given to add_order and modify_order,     *)
(* every order of the id-map has a quantity above zero between calls,      *)
(* every trade has a quantity above zero, and a traded order whose         *)
(* quantity reaches zero has left its list and the id-map when the         *)
(* iteration ends.                                                         *)
(***************************************************************************)
\* references held by the lists of the two price ledgers
ListedRefs(b) ==
    UNION {Range(b.price_levels_buy[p]) : p \in DOMAIN b.price_levels_buy}
    \cup UNION {Range(b.price_levels_sell[p]) : p \in DOMAIN b.price_levels_sell}

\* a traded order is gone if filled and still resting if not
FilledIsRemoved(before_, after_, order_id, traded) ==
    LET ref == before_.orders[order_id]
    IN  IF before_.store[ref].quantity = traded
        THEN order_id \notin DOMAIN after_.orders /\ ref \notin ListedRefs(after_)
        ELSE /\ order_id \in DOMAIN after_.orders
             /\ after_.orders[order_id] = ref
             /\ after_.store[ref].quantity > 0

C13_QuantitiesStayPositive ==
    /\ \A i \in DOMAIN orders : Resting(Book, i).quantity > 0
    /\ Returned("match_orders") =>
           \A k \in 1..Len(steps) :
               /\ ret[k].quantity > 0
               /\ FilledIsRemoved(steps[k].before, steps[k].after,
                                  ret[k].buy_order_id, ret[k].quantity)
               /\ FilledIsRemoved(steps[k].before, steps[k].after,
                                  ret[k].sell_order_id, ret[k].quantity)

\* a trade that fills one order and leaves the other resting with less
C13_Witness ==
    /\ Returned("match_orders")
    /\ \E k \in 1..Len(steps) :
           /\ Cardinality(DOMAIN steps[k].after.orders)
                  = Cardinality(DOMAIN steps[k].before.orders) - 1
           /\ \E i \in {ret[k].buy_order_id, ret[k].sell_order_id} :
                  /\ i \in DOMAIN orders
                  /\ QuantityOf(Book, i) < QuantityOf(steps[k].before, i)

(***************************************************************************)
(* C14.  get_order_book_snapshot is read-only: a call leaves the id-map,   *)
(* the orders, both price ledgers with their sets of keys and both heaps   *)
(* unchanged, and a second call with the same depth returns the same.      *)
(***************************************************************************)
C14_SnapshotIsReadOnly ==
    [][op'.name = "get_order_book_snapshot" =>
           /\ Book' = Book
           /\ get_order_book_snapshot(Book', op'.depth).ret = ret']_vars

(***************************************************************************)
(* C15.  A price key is present in price_levels_buy or price_levels_sell   *)
(* only with a non-empty list: no operation leaves an empty list behind.   *)
(***************************************************************************)
C15_NoEmptyPriceLevel ==
    /\ \A p \in DOMAIN price_levels_buy : price_levels_buy[p] # <<>>
    /\ \A p \in DOMAIN price_levels_sell : price_levels_sell[p] # <<>>

(***************************************************************************)
(* C16.  Every resting order has an entry in its own side's heap with its  *)
(* id and its current price, and get_best_bid and get_best_ask discard     *)
(* only entries whose id is not in the id-map when they are discarded.     *)
(***************************************************************************)
HasCurrentEntry(b, order_id) ==
    LET order == Resting(b, order_id)
        heap == IF order.side = "buy" THEN b.buy_orders ELSE b.sell_orders
        key == IF order.side = "buy" THEN -order.price ELSE order.price
    IN  \E k \in 1..Len(heap) : heap[k][1] = key /\ heap[k][3] = order_id

\* heap h2 is h1 without its first n entries, each of an id not in ids
DiscardedOnlyDead(h1, h2, ids) ==
    \E n \in 0..Len(h1) :
        /\ h2 = SubSeq(h1, n + 1, Len(h1))
        /\ \A k \in 1..n : h1[k][3] \notin ids

\* from book b1 to book b2 the heaps lost entries of dead ids only
DiscardsBetween(b1, b2) ==
    /\ DiscardedOnlyDead(b1.buy_orders, b2.buy_orders, DOMAIN b1.orders)
    /\ DiscardedOnlyDead(b1.sell_orders, b2.sell_orders, DOMAIN b1.orders)

C16_RestingOrderKeepsItsEntry ==
    [][/\ \A i \in DOMAIN orders' : HasCurrentEntry(Book', i)
       /\ op'.name \in {"get_best_bid", "get_best_ask", "get_spread"} =>
              DiscardsBetween(Book, Book')
       /\ op'.name = "match_orders" =>
              /\ \A k \in 1..Len(steps') :
                     /\ DiscardsBetween(IF k = 1 THEN Book ELSE steps'[k - 1].after,
                                        steps'[k].before)
                     /\ steps'[k].after.buy_orders = steps'[k].before.buy_orders
                     /\ steps'[k].after.sell_orders = steps'[k].before.sell_orders
              /\ DiscardsBetween(IF steps' = <<>> THEN Book
                                 ELSE steps'[Len(steps')].after, Book')]_vars

\* a pass whose second iteration discarded the entry of the buy order the
\* first one filled, with an order still resting at the end
C16_Witness ==
    /\ Returned("match_orders")
    /\ Len(steps) >= 2
    /\ Len(steps[2].before.buy_orders) < Len(steps[1].after.buy_orders)
    /\ DOMAIN orders # {}

(***************************************************************************)
(* C17.  match_orders terminates: every iteration that records a trade     *)
(* removes at least one of the two traded orders from the id-map, so a     *)
(* pass returns at most as many trades as orders rested when it started;   *)
(* get_best_bid and get_best_ask end after popping entries off the top of  *)
(* their heap, at most as many as it holds.                                *)
(***************************************************************************)
\* h2 is what is left of h1 after popping some of its entries
PoppedFrom(h1, h2) ==
    \E n \in 0..Len(h1) : h2 = SubSeq(h1, n + 1, Len(h1))

TradeRemovesAnOrder(before_, after_, match) ==
    /\ DOMAIN after_.orders \subseteq DOMAIN before_.orders
    /\ \/ match.buy_order_id \notin DOMAIN after_.orders
       \/ match.sell_order_id \notin DOMAIN after_.orders

C17_MatchingTerminates ==
    [][/\ op'.name = "match_orders" =>
              /\ \A k \in 1..Len(steps') :
                     TradeRemovesAnOrder(steps'[k].before, steps'[k].after, ret'[k])
              /\ Len(ret') <= Cardinality(DOMAIN orders)
              /\ PoppedFrom(buy_orders, buy_orders')
              /\ PoppedFrom(sell_orders, sell_orders')
       /\ op'.name = "get_best_bid" =>
              PoppedFrom(buy_orders, buy_orders') /\ sell_orders' = sell_orders
       /\ op'.name = "get_best_ask" =>
              PoppedFrom(sell_orders, sell_orders') /\ buy_orders' = buy_orders]_vars

\* a pass over three resting orders that returned two trades
C17_Witness ==
    /\ Returned("match_orders")
    /\ Len(ret) = 2
    /\ Cardinality(DOMAIN steps[1].before.orders) = 3
    /\ Len(steps[2].before.sell_orders) < Len(steps[1].after.sell_orders)

(***************************************************************************)
(* C18.  Price priority: when a trade is recorded its buy order has the    *)
(* highest current price of the resting buy orders, its sell order the     *)
(* lowest current price of the resting sell orders, and each is the first  *)
(* element of its list, stale heap entries or not.                         *)
(***************************************************************************)
\* the order is first in the list of its own side at its own price
FirstOfItsLevel(b, order_id) ==
    LET order == Resting(b, order_id)
        levels == OwnLevels(b, order.side)
    IN  /\ order.price \in DOMAIN levels
        /\ levels[order.price] # <<>>
        /\ levels[order.price][1] = b.orders[order_id]

C18_TradesBestAgainstBest ==
    Returned("match_orders") =>
        \A k \in 1..Len(steps) :
            LET b == steps[k].before
                buy_id == ret[k].buy_order_id
                sell_id == ret[k].sell_order_id
            IN  /\ buy_id \in RestingIds(b, "buy")
                /\ sell_id \in RestingIds(b, "sell")
                /\ IsMax(Resting(b, buy_id).price, RestingPrices(b, "buy"))
                /\ IsMin(Resting(b, sell_id).price, RestingPrices(b, "sell"))
                /\ FirstOfItsLevel(b, buy_id)
                /\ FirstOfItsLevel(b, sell_id)

\* a heap entry of a resting id that carries a price the order has left
StaleEntry(b, entry, side) ==
    /\ entry[3] \in DOMAIN b.orders
    /\ \/ Resting(b, entry[3]).side # side
       \/ Resting(b, entry[3]).price # (IF side = "buy" THEN -entry[1] ELSE entry[1])

\* a trade made while a heap holds a stale entry of a resting order
C18_Witness ==
    /\ Returned("match_orders")
    /\ \E k \in 1..Len(steps) :
           \/ \E n \in 1..Len(steps[k].before.buy_orders) :
                  StaleEntry(steps[k].before, steps[k].before.buy_orders[n], "buy")
           \/ \E n \in 1..Len(steps[k].before.sell_orders) :
                  StaleEntry(steps[k].before, steps[k].before.sell_orders[n], "sell")

(***************************************************************************)
(* C19.  Every trade's price is at most the current limit price of its     *)
(* buy order and equal to that of its sell order: no buyer pays more and   *)
(* no seller receives less than the limit.                                 *)
(***************************************************************************)
C19_TradeWithinLimits ==
    Returned("match_orders") =>
        \A k \in 1..Len(steps) :
            /\ ret[k].price <= Resting(steps[k].before, ret[k].buy_order_id).price
            /\ ret[k].price >= Resting(steps[k].before, ret[k].sell_order_id).price
            /\ ret[k].price <= Resting(steps[k].before, ret[k].sell_order_id).price

\* a trade below the limit of a buy order whose price was amended
C19_Witness ==
    /\ Returned("match_orders")
    /\ \E k \in 1..Len(steps) :
           /\ ret[k].price < Resting(steps[k].before, ret[k].buy_order_id).price
           /\ steps[k].before.orders[ret[k].buy_order_id] \in amended

(***************************************************************************)
(* C20.  match_orders is idempotent: called again right after a call, it   *)
(* returns no trade and leaves the id-map, the orders and the lists of     *)
(* both price ledgers unchanged.                                           *)
(***************************************************************************)
C20_MatchIsIdempotent ==
    Returned("match_orders") =>
        LET again == match_orders(Book)
        IN  /\ again.ret = <<>>
            /\ again.book.orders = orders
            /\ again.book.store = store
            /\ again.book.price_levels_buy = price_levels_buy
            /\ again.book.price_levels_sell = price_levels_sell

\* after a pass of two trades that left orders resting
C20_Witness ==
    /\ Returned("match_orders")
    /\ Len(ret) >= 2
    /\ DOMAIN orders # {}

====
